---------------------------- MODULE Spec2Model ----------------------------
(***************************************************************************)
(* A model of src/src/App.jsx: the seven noise filters, the chunked        *)
(* generation loop of generateNoise, normalizeSamples, createWavFile and   *)
(* the status line with its 5-second timer.                                *)
(*                                                                         *)
(* Numbers.  A JavaScript number (a double) x is the integer               *)
(* floor(x * DOUBLE_ONE): a fixed-point value with 16 fraction bits, every *)
(* product rounded down to that grid.  An element of a Float32Array is a   *)
(* double rounded to MANT_BITS significant bits, ties to even (Fround):    *)
(* binary32 has 24 significant bits against the double's 53, the model 7   *)
(* against 16 fraction bits.  With 7 bits 0.99 rounds upward on being      *)
(* stored, as it does in binary32 (0.99 -> 0.9900000095367432).            *)
(*                                                                         *)
(* Specifications.  Spec is the application: the controls, generateNoise   *)
(* step by step with SAMPLE_RATE and CHUNK_SIZE as in the source, and the  *)
(* status timer; the sample buffer is there by its length and fill level.  *)
(* SpecFilter runs the chunk loop over real sample values for a short tape *)
(* of random draws and a small chunk size.  SpecNorm applies               *)
(* normalizeSamples and SpecWav createWavFile to short buffers.            *)
(***************************************************************************)
EXTENDS Integers, Sequences, FiniteSets, TLC

(***************************************************************************)
(* Program constants                                                       *)
(***************************************************************************)
SAMPLE_RATE == 44100
CHANNELS == 1
DEFAULT_DURATION_MINUTES == 5
CHUNK_SIZE == 441000

(***************************************************************************)
(* Bounds of the model                                                     *)
(***************************************************************************)
\* significant bits of a Float32Array element in the model
MANT_BITS == 7
\* longest tape of Math.random() draws in SpecFilter
MaxDraws == 4
\* largest chunk size in SpecFilter
MaxChunk == 3
\* longest buffer in SpecNorm and SpecWav
MaxLen == 3
\* largest duration, in minutes, the slider delivers in Spec
MaxDuration == 2
\* clicks on Generate in one behaviour of Spec
MaxRuns == 2

(***************************************************************************)
(* Arithmetic on doubles                                                   *)
(***************************************************************************)
\* 1.0 on the fixed-point grid
DOUBLE_ONE == 256 * 256

Abs(x) == IF x < 0 THEN -x ELSE x

Sign(x) == IF x < 0 THEN -1 ELSE 1

RECURSIVE Pow2(_)
Pow2(k) == IF k = 0 THEN 1 ELSE 2 * Pow2(k - 1)

\* the k leading base-16 fraction digits of r / den, 0 <= r < den
RECURSIVE Frac(_, _, _)
Frac(r, den, k) ==
  IF k = 0 THEN 0
  ELSE LET a == r * 16
       IN  (a \div den) * Pow2(4 * (k - 1)) + Frac(a % den, den, k - 1)

\* the decimal literal num/den as a double
Lit(num, den) == (num \div den) * DOUBLE_ONE + Frac(num % den, den, 4)

\* x * y
MulDbl(x, y) ==
  LET yh == y \div 256
      yl == y % 256
  IN  (x * yh + (x * yl) \div 256) \div 256

\* the spacing of the Float32 values around a >= 0
RECURSIVE FloatStep(_, _)
FloatStep(a, step) ==
  IF a < Pow2(MANT_BITS) * step THEN step ELSE FloatStep(a, 2 * step)

\* Math.fround: the store of a double into a Float32Array element
Fround(v) ==
  LET a == Abs(v)
      step == FloatStep(a, 1)
      q == a \div step
      r == a % step
      up == 2 * r > step \/ (2 * r = step /\ q % 2 = 1)
  IN  Sign(v) * ((IF up THEN q + 1 ELSE q) * step)

\* new Float32Array(length): zero-filled
ZeroArray(length) == [i \in 1..length |-> 0]

\* typedArray.set(source, offset)
SetAt(target, source, offset) ==
  [i \in 1..Len(target) |->
     IF i > offset /\ i <= offset + Len(source) THEN source[i - offset]
     ELSE target[i]]

(***************************************************************************)
(* The filters                                                             *)
(***************************************************************************)
NULL == [kind |-> "null"]

\* state?.field ?? 0
GetReset(state, field) == 0

Get(state, field) == IF field \in DOMAIN state THEN state[field] ELSE 0

\* (Math.random() * 2 - 1) * 0.5
White(r) == MulDbl(MulDbl(r, Lit(2, 1)) - Lit(1, 1), Lit(5, 10))

RECURSIVE WhiteLoop(_, _, _)
WhiteLoop(rnd, i, samples) ==
  IF i > Len(rnd) THEN samples
  ELSE WhiteLoop(rnd, i + 1, [samples EXCEPT ![i] = Fround(White(rnd[i]))])

generateWhiteNoise(rnd) == WhiteLoop(rnd, 1, ZeroArray(Len(rnd)))

RECURSIVE PinkLoop(_, _, _, _)
PinkLoop(rnd, i, samples, s) ==
  IF i > Len(rnd) THEN [samples |-> samples, state |-> s]
  ELSE
    LET white == White(rnd[i])
        b0 == MulDbl(Lit(99886, 100000), s.b0) + MulDbl(white, Lit(555179, 10000000))
        b1 == MulDbl(Lit(99332, 100000), s.b1) + MulDbl(white, Lit(750759, 10000000))
        b2 == MulDbl(Lit(96900, 100000), s.b2) + MulDbl(white, Lit(1538520, 10000000))
        b3 == MulDbl(Lit(86650, 100000), s.b3) + MulDbl(white, Lit(3104856, 10000000))
        b4 == MulDbl(Lit(55000, 100000), s.b4) + MulDbl(white, Lit(5329522, 10000000))
        b5 == MulDbl(-Lit(7616, 10000), s.b5) - MulDbl(white, Lit(168980, 10000000))
        sum == Fround(b0 + b1 + b2 + b3 + b4 + b5 + s.b6 + MulDbl(white, Lit(5362, 10000)))
        out == Fround(MulDbl(sum, Lit(11, 100)))
        b6 == MulDbl(white, Lit(115926, 1000000))
    IN  PinkLoop(rnd, i + 1, [samples EXCEPT ![i] = out],
                 [b0 |-> b0, b1 |-> b1, b2 |-> b2, b3 |-> b3, b4 |-> b4,
                  b5 |-> b5, b6 |-> b6])

generatePinkNoise(rnd, state) ==
  PinkLoop(rnd, 1, ZeroArray(Len(rnd)),
           [b0 |-> Get(state, "b0"), b1 |-> Get(state, "b1"),
            b2 |-> Get(state, "b2"), b3 |-> Get(state, "b3"),
            b4 |-> Get(state, "b4"), b5 |-> Get(state, "b5"),
            b6 |-> Get(state, "b6")])

RECURSIVE BrownLoop(_, _, _, _)
BrownLoop(rnd, i, samples, s) ==
  IF i > Len(rnd) THEN [samples |-> samples, state |-> s]
  ELSE
    LET white == White(rnd[i])
        lastSample == MulDbl(s.lastSample + MulDbl(white, Lit(2, 100)), Lit(99, 100))
    IN  BrownLoop(rnd, i + 1,
                  [samples EXCEPT ![i] = Fround(MulDbl(lastSample, Lit(35, 10)))],
                  [lastSample |-> lastSample])

generateBrownNoise(rnd, state) ==
  BrownLoop(rnd, 1, ZeroArray(Len(rnd)), [lastSample |-> Get(state, "lastSample")])

RECURSIVE BlueLoop(_, _, _, _)
BlueLoop(rnd, i, samples, s) ==
  IF i > Len(rnd) THEN [samples |-> samples, state |-> s]
  ELSE
    LET white == White(rnd[i])
    IN  BlueLoop(rnd, i + 1,
                 [samples EXCEPT ![i] = Fround(MulDbl(white - s.lastSample, Lit(5, 10)))],
                 [lastSample |-> white])

generateBlueNoise(rnd, state) ==
  BlueLoop(rnd, 1, ZeroArray(Len(rnd)), [lastSample |-> Get(state, "lastSample")])

RECURSIVE VioletLoop(_, _, _, _)
VioletLoop(rnd, i, samples, s) ==
  IF i > Len(rnd) THEN [samples |-> samples, state |-> s]
  ELSE
    LET white == White(rnd[i])
        out == MulDbl(white - 2 * s.lastSample + s.lastLastSample, Lit(3, 10))
    IN  VioletLoop(rnd, i + 1, [samples EXCEPT ![i] = Fround(out)],
                   [lastSample |-> white, lastLastSample |-> s.lastSample])

generateVioletNoise(rnd, state) ==
  VioletLoop(rnd, 1, ZeroArray(Len(rnd)),
             [lastSample |-> Get(state, "lastSample"),
              lastLastSample |-> Get(state, "lastLastSample")])

\* the first loop of generateGreyNoise: the scaled white samples
RECURSIVE GreyFill(_, _, _)
GreyFill(rnd, i, samples) ==
  IF i > Len(rnd) THEN samples
  ELSE
    LET pinkComponent == MulDbl(White(rnd[i]), Lit(7, 10))
    IN  GreyFill(rnd, i + 1,
                 [samples EXCEPT ![i] = Fround(MulDbl(pinkComponent, Lit(6, 10)))])

\* the second loop of generateGreyNoise: the two-pole blend
RECURSIVE GreyLoop(_, _, _, _, _)
GreyLoop(samples, i, filtered, state1, state2) ==
  IF i > Len(samples) THEN filtered
  ELSE
    LET s1 == MulDbl(state1, Lit(99, 100)) + MulDbl(samples[i], Lit(1, 100))
        s2 == MulDbl(state2, Lit(95, 100)) + MulDbl(samples[i], Lit(5, 100))
        mix == MulDbl(s1, Lit(4, 10)) + MulDbl(s2, Lit(3, 10))
                 + MulDbl(samples[i], Lit(3, 10))
    IN  GreyLoop(samples, i + 1,
                 [filtered EXCEPT ![i] = Fround(MulDbl(mix, Lit(12, 10)))], s1, s2)

generateGreyNoise(rnd) ==
  GreyLoop(GreyFill(rnd, 1, ZeroArray(Len(rnd))), 1, ZeroArray(Len(rnd)), 0, 0)

RECURSIVE OrangeLoop(_, _, _, _)
OrangeLoop(rnd, i, samples, s) ==
  IF i > Len(rnd) THEN [samples |-> samples, state |-> s]
  ELSE
    LET white == White(rnd[i])
        filterState == MulDbl(s.filterState, Lit(992, 1000)) + MulDbl(white, Lit(8, 1000))
        lastSample ==
          MulDbl(s.lastSample + MulDbl(filterState, Lit(15, 1000)), Lit(995, 1000))
    IN  OrangeLoop(rnd, i + 1,
                   [samples EXCEPT ![i] = Fround(MulDbl(lastSample, Lit(28, 10)))],
                   [lastSample |-> lastSample, filterState |-> filterState])

generateOrangeNoise(rnd, state) ==
  OrangeLoop(rnd, 1, ZeroArray(Len(rnd)),
             [lastSample |-> Get(state, "lastSample"),
              filterState |-> Get(state, "filterState")])

\* the identifiers the switch of generateNoise knows
NoiseTypes == {"white", "pink", "brown", "blue", "violet", "grey", "orange"}

\* one pass through the switch: the chunk's samples and the state left in `state`
\* the switch with a Grey case that threads the two blend states through the
\* state object, as the cases of the other recursive filters do
RECURSIVE GreyEndState(_, _, _, _)
GreyEndState(samples, i, state1, state2) ==
  IF i > Len(samples) THEN [kind |-> "grey", state1 |-> state1, state2 |-> state2]
  ELSE GreyEndState(samples, i + 1,
                    MulDbl(state1, Lit(99, 100)) + MulDbl(samples[i], Lit(1, 100)),
                    MulDbl(state2, Lit(95, 100)) + MulDbl(samples[i], Lit(5, 100)))

GenerateChunkGreyThreaded(type, rnd, state) ==
  CASE type = "white"  -> [samples |-> generateWhiteNoise(rnd), state |-> state]
    [] type = "pink"   -> generatePinkNoise(rnd, state)
    [] type = "brown"  -> generateBrownNoise(rnd, state)
    [] type = "blue"   -> generateBlueNoise(rnd, state)
    [] type = "violet" -> generateVioletNoise(rnd, state)
    [] type = "grey"   ->
         LET samples == GreyFill(rnd, 1, ZeroArray(Len(rnd)))
             state1  == Get(state, "state1")
             state2  == Get(state, "state2")
         IN  [samples |-> GreyLoop(samples, 1, ZeroArray(Len(rnd)), state1, state2),
              state   |-> GreyEndState(samples, 1, state1, state2)]
    [] type = "orange" -> generateOrangeNoise(rnd, state)

GenerateChunk(type, rnd, state) ==
  CASE type = "white"  -> [samples |-> generateWhiteNoise(rnd), state |-> state]
    [] type = "pink"   -> generatePinkNoise(rnd, state)
    [] type = "brown"  -> generateBrownNoise(rnd, state)
    [] type = "blue"   -> generateBlueNoise(rnd, state)
    [] type = "violet" -> generateVioletNoise(rnd, state)
    [] type = "grey"   -> [samples |-> generateGreyNoise(rnd), state |-> state]
    [] type = "orange" -> generateOrangeNoise(rnd, state)

\* Math.ceil(totalSamples / CHUNK_SIZE)
CeilDiv(a, b) == -((-a) \div b)

Min(a, b) == IF a < b THEN a ELSE b

ChunkStart(chunk, chunkSize) == chunk * chunkSize

ChunkEnd(chunk, chunkSize, totalSamples) ==
  Min(ChunkStart(chunk, chunkSize) + chunkSize, totalSamples)

(***************************************************************************)
(* normalizeSamples                                                        *)
(***************************************************************************)
\* the first loop: the largest absolute value
RECURSIVE MaxAbsLoop(_, _, _)
MaxAbsLoop(samples, i, max) ==
  IF i > Len(samples) THEN max
  ELSE MaxAbsLoop(samples, i + 1, IF Abs(samples[i]) > max THEN Abs(samples[i]) ELSE max)

\* 0.99 / max, kept as a fraction: the scale is num * DOUBLE_ONE / den
ScaleNoMax(max) == [num |-> 99, den |-> 100 * DOUBLE_ONE]

Scale(max) == [num |-> 99, den |-> 100 * max]

\* the remainder left after k base-16 fraction digits of r / den
RECURSIVE FracRem(_, _, _)
FracRem(r, den, k) == IF k = 0 THEN r ELSE FracRem((r * 16) % den, den, k - 1)

\* samples[i] *= scale: the product stored into the Float32Array.  The two
\* double operations are exact here (their error is 2^-29 of the Float32
\* spacing); the store rounds to the nearest Float32, ties to even.
TimesScale(sample, scale) ==
  LET n    == Abs(sample) * scale.num
      d    == scale.den
      q    == (n \div d) * DOUBLE_ONE + Frac(n % d, d, 4)
      rest == FracRem(n % d, d, 4)
      step == FloatStep(q, 1)
      u    == q \div step
      low  == q % step
      up   == IF step = 1 THEN 2 * rest > d \/ (2 * rest = d /\ u % 2 = 1)
              ELSE 2 * low > step
                   \/ (2 * low = step /\ (rest > 0 \/ u % 2 = 1))
  IN  Sign(sample) * ((IF up THEN u + 1 ELSE u) * step)

\* the second loop: samples[i] *= scale
RECURSIVE ScaleLoop(_, _, _)
ScaleLoop(samples, i, scale) ==
  IF i > Len(samples) THEN samples
  ELSE ScaleLoop([samples EXCEPT ![i] = TimesScale(samples[i], scale)], i + 1, scale)

\* max > 0.99
ExceedsNever(max) == FALSE

Exceeds(max) == 100 * max > 99 * DOUBLE_ONE

normalizeSamples(samples) ==
  LET max == MaxAbsLoop(samples, 1, 0)
  IN  IF Exceeds(max) THEN ScaleLoop(samples, 1, Scale(max)) ELSE samples

(***************************************************************************)
(* createWavFile                                                           *)
(***************************************************************************)
\* the character codes of the four chunk tags
RIFF == <<82, 73, 70, 70>>
WAVE == <<87, 65, 86, 69>>
FMT  == <<102, 109, 116, 32>>
DATA == <<100, 97, 116, 97>>

\* view.setUint8(offset + i, string.charCodeAt(i))
writeString(view, offset, string) == SetAt(view, string, offset)

\* view.setUint32(offset, value, true)
setUint32BigEndian(view, offset, value) ==
  SetAt(view, << (value \div 16777216) % 256, (value \div 65536) % 256,
                 (value \div 256) % 256, value % 256 >>, offset)

setUint32(view, offset, value) ==
  SetAt(view, << value % 256, (value \div 256) % 256,
                 (value \div 65536) % 256, (value \div 16777216) % 256 >>, offset)

\* view.setUint16(offset, value, true)
setUint16(view, offset, value) ==
  SetAt(view, << value % 256, (value \div 256) % 256 >>, offset)

\* view.setInt16(offset, value, true), value already an integer: modulo 2^16
setInt16(view, offset, value) ==
  LET m == value % 65536
  IN  SetAt(view, << m % 256, m \div 256 >>, offset)

\* new ArrayBuffer(44 + length * 2)
WavSize(length) == 44 + length * 2

\* the 44 header bytes
WavHeader(length, sampleRate) ==
  LET v0  == writeString(ZeroArray(44), 0, RIFF)
      v1  == setUint32(v0, 4, 36 + length * 2)
      v2  == writeString(v1, 8, WAVE)
      v3  == writeString(v2, 12, FMT)
      v4  == setUint32(v3, 16, 16)
      v5  == setUint16(v4, 20, 1)
      v6  == setUint16(v5, 22, CHANNELS)
      v7  == setUint32(v6, 24, sampleRate)
      v8  == setUint32(v7, 28, sampleRate * CHANNELS * 2)
      v9  == setUint16(v8, 32, CHANNELS * 2)
      v10 == setUint16(v9, 34, 16)
      v11 == writeString(v10, 36, DATA)
  IN  setUint32(v11, 40, length * 2)

\* Math.max(-1, Math.min(1, samples[i]))
ClampNone(sample) == sample

Clamp(sample) ==
  IF sample > DOUBLE_ONE THEN DOUBLE_ONE
  ELSE IF sample < -DOUBLE_ONE THEN -DOUBLE_ONE ELSE sample

\* sample * k for the integer k, and the conversion setInt16 makes of it:
\* the fraction is dropped (toward zero)
TimesTrunc(sample, k) == Sign(sample) * MulDbl(Abs(sample), k)

\* sample < 0 ? sample * 0x8000 : sample * 0x7FFF
IntSample(sample) ==
  IF sample < 0 THEN TimesTrunc(sample, 32768) ELSE TimesTrunc(sample, 32767)

\* the loop over the samples, from byte 44 on
RECURSIVE PcmLoop(_, _, _)
PcmLoop(view, samples, i) ==
  IF i > Len(samples) THEN view
  ELSE PcmLoop(setInt16(view, 44 + 2 * (i - 1), IntSample(Clamp(samples[i]))),
               samples, i + 1)

createWavFile(samples, sampleRate) ==
  LET length == Len(samples)
      buffer == ZeroArray(WavSize(length))
  IN  PcmLoop(SetAt(buffer, WavHeader(length, sampleRate), 0), samples, 1)

(***************************************************************************)
(* State                                                                   *)
(***************************************************************************)
VARIABLES
  \* the application (Spec)
  noiseType,     \* useState('brown')
  duration,      \* useState(DEFAULT_DURATION_MINUTES), in minutes
  isGenerating,  \* useState(false)
  status,        \* useState({message: '', type: ''}); seq numbers the messages
  timers,        \* the pending setTimeout callbacks of showStatus, oldest first
  shown,         \* the calls of showStatus so far
  runs,          \* the calls of generateNoise so far
  downloads,     \* the byte lengths handed to downloadFile, oldest first
  \* one call of generateNoise (Spec)
  pc,            \* where the call stands; "idle": the call stack is empty
  totalSamples,
  chunks,
  chunk,
  samplesLen,    \* samples.length, -1 before the allocation
  filled,        \* the samples written by samples.set so far
  dispatches,    \* the times the switch on noiseType was entered
  normalized,    \* normalizeSamples has returned
  wav,           \* the Blob of createWavFile: its header and byte length
  error,         \* the message of the Error caught, "" when none
  progress,      \* the percentages of the "Generating... n%" messages of the run
  \* the chunk loop on sample values (SpecFilter)
  fType, fRnd, fChunkSize, fChunk, fState, fSamples,
  \* normalizeSamples on a buffer (SpecNorm)
  nInput, nSamples, nPasses, nPrev,
  \* createWavFile on a buffer (SpecWav)
  wSamples, wRate, wBytes

appVars == <<noiseType, duration, isGenerating, status, timers, shown, runs, downloads>>
runVars == <<pc, totalSamples, chunks, chunk, samplesLen, filled, dispatches,
             normalized, wav, error, progress>>
filterVars == <<fType, fRnd, fChunkSize, fChunk, fState, fSamples>>
normVars == <<nInput, nSamples, nPasses, nPrev>>
wavVars == <<wSamples, wRate, wBytes>>
vars == <<appVars, runVars, filterVars, normVars, wavVars>>

NoWav == [header |-> <<>>, size |-> -1]

AppInit ==
  /\ noiseType = "brown"
  /\ duration = DEFAULT_DURATION_MINUTES
  /\ isGenerating = FALSE
  /\ status = [type |-> "", seq |-> 0]
  /\ timers = <<>>
  /\ shown = 0
  /\ runs = 0
  /\ downloads = <<>>

RunInit ==
  /\ pc = "idle"
  /\ totalSamples = 0
  /\ chunks = 0
  /\ chunk = 0
  /\ samplesLen = -1
  /\ filled = 0
  /\ dispatches = 0
  /\ normalized = FALSE
  /\ wav = NoWav
  /\ error = ""
  /\ progress = <<>>

FilterIdle ==
  /\ fType = "white"
  /\ fRnd = <<>>
  /\ fChunkSize = 1
  /\ fChunk = 0
  /\ fState = NULL
  /\ fSamples = <<>>

NormIdle ==
  /\ nInput = <<>>
  /\ nSamples = <<>>
  /\ nPasses = 0
  /\ nPrev = <<>>

WavIdle ==
  /\ wSamples = <<>>
  /\ wRate = SAMPLE_RATE
  /\ wBytes = <<>>

(***************************************************************************)
(* Spec: the application                                                   *)
(***************************************************************************)
\* What the controls deliver.  generateNoise reads `noiseType` and `duration`
\* as they are; the range of the slider and the seven radio values are kept
\* by the markup alone, so a value outside them is an input of generateNoise
\* like any other.
TypeInputs == NoiseTypes \cup {"unknown"}
DurationInputs == (-1)..MaxDuration

\* showStatus(message, type): the new status, and a timer for a success
ShowStatus(type) ==
  /\ shown' = shown + 1
  /\ status' = [type |-> type, seq |-> shown + 1]
  /\ timers' = IF type = "success" THEN Append(timers, shown + 1) ELSE timers

\* the radio buttons: setNoiseType(e.target.value)
SelectNoiseType(t) ==
  /\ pc = "idle"
  /\ t # noiseType
  /\ noiseType' = t
  /\ UNCHANGED <<duration, isGenerating, status, timers, shown, runs, downloads>>
  /\ UNCHANGED <<runVars, filterVars, normVars, wavVars>>

\* handleDurationChange: setDuration(parseFloat(e.target.value))
handleDurationChange(newValue) ==
  /\ pc = "idle"
  /\ newValue # duration
  /\ duration' = newValue
  /\ UNCHANGED <<noiseType, isGenerating, status, timers, shown, runs, downloads>>
  /\ UNCHANGED <<runVars, filterVars, normVars, wavVars>>

\* the callback of the setTimeout of showStatus: the status is blanked
StatusTimeout ==
  /\ pc = "idle"
  /\ timers # <<>>
  /\ timers' = Tail(timers)
  /\ status' = [type |-> "", seq |-> status.seq]
  /\ UNCHANGED <<noiseType, duration, isGenerating, shown, runs, downloads>>
  /\ UNCHANGED <<runVars, filterVars, normVars, wavVars>>

\* Math.floor(SAMPLE_RATE * durationSeconds), durationSeconds = duration * 60
TotalSamplesPerSecond(minutes) == SAMPLE_RATE * minutes

TotalSamples(minutes) == SAMPLE_RATE * (minutes * 60)

\* the click on Generate: generateNoise up to its try block
GenerateStart ==
  /\ pc = "idle"
  /\ ~isGenerating
  /\ runs < MaxRuns
  /\ runs' = runs + 1
  /\ totalSamples' = TotalSamples(duration)
  /\ isGenerating' = TRUE
  /\ ShowStatus("info")
  /\ pc' = "try"
  /\ UNCHANGED <<noiseType, duration, downloads>>
  /\ UNCHANGED <<chunks, chunk, samplesLen, filled, dispatches, normalized, wav, error,
                 progress>>
  /\ UNCHANGED <<filterVars, normVars, wavVars>>

\* chunks = Math.ceil(...); samples = new Float32Array(totalSamples), which
\* throws a RangeError for a negative length
Allocate ==
  /\ pc = "try"
  /\ chunks' = CeilDiv(totalSamples, CHUNK_SIZE)
  /\ IF totalSamples < 0
       THEN /\ error' = "Invalid typed array length"
            /\ pc' = "catch"
            /\ UNCHANGED <<samplesLen, chunk>>
       ELSE /\ samplesLen' = totalSamples
            /\ chunk' = 0
            /\ pc' = "loop"
            /\ UNCHANGED error
  /\ UNCHANGED <<totalSamples, filled, dispatches, normalized, wav, progress>>
  /\ UNCHANGED <<appVars, filterVars, normVars, wavVars>>

\* a report at every tenth chunk, not at every tenth of the chunks
ReportsEveryTenth(c, n) == n > 10 /\ c % 10 = 0

\* chunks > 10 && chunk % Math.floor(chunks / 10) === 0
ReportsProgress(c, n) == n > 10 /\ c % (n \div 10) = 0

\* Math.round((chunk / chunks) * 100), for 0 <= chunk < chunks
Progress(c, n) == (200 * c + n) \div (2 * n)

\* the loop test chunk < chunks
LoopEndsEarly(c, n) == c + 1 < n

LoopContinues(c, n) == c < n

\* one pass of the loop body: the switch, samples.set and the progress report
GenerateChunkStep ==
  /\ pc = "loop"
  /\ LoopContinues(chunk, chunks)
  /\ dispatches' = dispatches + 1
  /\ IF noiseType \in NoiseTypes
       THEN /\ filled' = IF filled = ChunkStart(chunk, CHUNK_SIZE)
                           THEN ChunkEnd(chunk, CHUNK_SIZE, totalSamples)
                           ELSE filled
            /\ IF ReportsProgress(chunk, chunks)
                 THEN /\ ShowStatus("info")
                      /\ progress' = Append(progress, Progress(chunk, chunks))
                 ELSE UNCHANGED <<status, timers, shown, progress>>
            /\ chunk' = chunk + 1
            /\ UNCHANGED <<pc, error>>
       ELSE /\ error' = "Unknown noise type"
            /\ pc' = "catch"
            /\ UNCHANGED <<filled, chunk, status, timers, shown, progress>>
  /\ UNCHANGED <<noiseType, duration, isGenerating, runs, downloads>>
  /\ UNCHANGED <<totalSamples, chunks, samplesLen, normalized, wav>>
  /\ UNCHANGED <<filterVars, normVars, wavVars>>

\* the loop is left: normalizeSamples(samples)
Normalize ==
  /\ pc = "loop"
  /\ ~LoopContinues(chunk, chunks)
  /\ normalized' = TRUE
  /\ pc' = "encode"
  /\ UNCHANGED <<totalSamples, chunks, chunk, samplesLen, filled, dispatches, wav, error,
                 progress>>
  /\ UNCHANGED <<appVars, filterVars, normVars, wavVars>>

\* createWavFile(normalizedSamples, SAMPLE_RATE)
Encode ==
  /\ pc = "encode"
  /\ wav' = [header |-> WavHeader(samplesLen, SAMPLE_RATE), size |-> WavSize(samplesLen)]
  /\ pc' = "download"
  /\ UNCHANGED <<totalSamples, chunks, chunk, samplesLen, filled, dispatches,
                 normalized, error, progress>>
  /\ UNCHANGED <<appVars, filterVars, normVars, wavVars>>

\* downloadFile(wavBlob, ...) and the success message
Download ==
  /\ pc = "download"
  /\ downloads' = Append(downloads, wav.size)
  /\ ShowStatus("success")
  /\ pc' = "finally"
  /\ UNCHANGED <<noiseType, duration, isGenerating, runs>>
  /\ UNCHANGED <<totalSamples, chunks, chunk, samplesLen, filled, dispatches,
                 normalized, wav, error, progress>>
  /\ UNCHANGED <<filterVars, normVars, wavVars>>

\* catch (error): the error message
Catch ==
  /\ pc = "catch"
  /\ ShowStatus("error")
  /\ pc' = "finally"
  /\ UNCHANGED <<noiseType, duration, isGenerating, runs, downloads>>
  /\ UNCHANGED <<totalSamples, chunks, chunk, samplesLen, filled, dispatches,
                 normalized, wav, error, progress>>
  /\ UNCHANGED <<filterVars, normVars, wavVars>>

\* finally: setIsGenerating(false); the call returns and its locals are gone
Finally ==
  /\ pc = "finally"
  /\ isGenerating' = FALSE
  /\ pc' = "idle"
  /\ totalSamples' = 0
  /\ chunks' = 0
  /\ chunk' = 0
  /\ samplesLen' = -1
  /\ filled' = 0
  /\ dispatches' = 0
  /\ normalized' = FALSE
  /\ wav' = NoWav
  /\ error' = ""
  /\ progress' = <<>>
  /\ UNCHANGED <<noiseType, duration, status, timers, shown, runs, downloads>>
  /\ UNCHANGED <<filterVars, normVars, wavVars>>

\* what the host does between two calls: an input or a timer callback
HostEvent ==
  \/ \E t \in TypeInputs : SelectNoiseType(t)
  \/ \E v \in DurationInputs : handleDurationChange(v)
  \/ StatusTimeout

\* the steps of generateNoise
generateNoise ==
  \/ GenerateStart
  \/ Allocate
  \/ GenerateChunkStep
  \/ Normalize
  \/ Encode
  \/ Download
  \/ Catch
  \/ Finally

Init == AppInit /\ RunInit /\ FilterIdle /\ NormIdle /\ WavIdle

Next == HostEvent \/ generateNoise

Spec == Init /\ [][Next]_vars

(***************************************************************************)
(* SpecFilter: the chunk loop of generateNoise on sample values            *)
(***************************************************************************)
\* values of Math.random(), in [0, 1)
RandomValues == {0, Lit(3, 4), DOUBLE_ONE - 1}

\* the draws Math.random() will return, in the order of the calls
Tapes == UNION {[1..n -> RandomValues] : n \in 0..MaxDraws}

FilterChunks == CeilDiv(Len(fRnd), fChunkSize)

FilterInit ==
  /\ fType \in NoiseTypes
  /\ fRnd \in Tapes
  /\ fChunkSize \in 1..MaxChunk
  /\ fChunk = 0
  /\ fState = NULL
  /\ fSamples = ZeroArray(Len(fRnd))
  /\ AppInit /\ RunInit /\ NormIdle /\ WavIdle

\* one pass of the loop body: every filter draws once per sample, so the chunk
\* takes the draws start+1 .. end of the tape
FilterChunkStep ==
  /\ LoopContinues(fChunk, FilterChunks)
  /\ LET start  == ChunkStart(fChunk, fChunkSize)
         end    == ChunkEnd(fChunk, fChunkSize, Len(fSamples))
         result == GenerateChunk(fType, SubSeq(fRnd, start + 1, end), fState)
     IN  /\ fSamples' = SetAt(fSamples, result.samples, start)
         /\ fState' = result.state
  /\ fChunk' = fChunk + 1
  /\ UNCHANGED <<fType, fRnd, fChunkSize>>
  /\ UNCHANGED <<appVars, runVars, normVars, wavVars>>

SpecFilter == FilterInit /\ [][FilterChunkStep]_vars

(***************************************************************************)
(* SpecNorm: normalizeSamples on a buffer                                  *)
(***************************************************************************)
\* Float32 values: -1.5, just above -0.99, tiny, 0, 0.5, just below and just
\* above 0.99, 2.0
NormValues ==
  {Fround(v) : v \in {-Lit(3, 2), -Lit(99, 100), -3, 0, 254, Lit(1, 2),
                      Lit(63, 64), Lit(99, 100), Lit(2, 1)}}

Buffers(values) == UNION {[1..n -> values] : n \in 0..MaxLen}

NormInit ==
  /\ nInput \in Buffers(NormValues)
  /\ nSamples = nInput
  /\ nPasses = 0
  /\ nPrev = <<>>
  /\ AppInit /\ RunInit /\ FilterIdle /\ WavIdle

\* one call of normalizeSamples on the buffer, which it changes in place
NormalizePass ==
  /\ nPasses < 2
  /\ nPrev' = nSamples
  /\ nSamples' = normalizeSamples(nSamples)
  /\ nPasses' = nPasses + 1
  /\ UNCHANGED nInput
  /\ UNCHANGED <<appVars, runVars, filterVars, wavVars>>

SpecNorm == NormInit /\ [][NormalizePass]_vars

(***************************************************************************)
(* SpecWav: createWavFile on a buffer                                      *)
(***************************************************************************)
\* Float32 values: beyond and at -1 and 1, around 0.99, 0.5, tiny, 0
WavValues ==
  {Fround(v) : v \in {-Lit(2, 1), -Lit(1, 1), -Lit(99, 100), -3, 0, 5,
                      Lit(1, 2), Lit(99, 100), Lit(1, 1), Lit(2, 1)}}

WavInit ==
  /\ wSamples \in Buffers(WavValues)
  /\ wRate = SAMPLE_RATE
  /\ wBytes = <<>>
  /\ AppInit /\ RunInit /\ FilterIdle /\ NormIdle

EncodeWav ==
  /\ wBytes = <<>>
  /\ wBytes' = createWavFile(wSamples, wRate)
  /\ UNCHANGED <<wSamples, wRate>>
  /\ UNCHANGED <<appVars, runVars, filterVars, normVars>>

SpecWav == WavInit /\ [][EncodeWav]_vars

(***************************************************************************)
(* Properties                                                              *)
(***************************************************************************)
\* the filters that are given `state` and return it, and White
ThreadedTypes == {"white", "pink", "brown", "blue", "violet", "orange"}

\* C1: a run of the chunk loop of White, Pink, Brown, Blue, Violet or Orange,
\* whatever the chunk size and the length, ends with the very samples one
\* call of the filter over the whole tape of draws, from the zero state, gives.
C1_ChunkedEqualsUnchunked ==
  (fChunk = FilterChunks /\ fType \in ThreadedTypes)
    => fSamples = GenerateChunk(fType, fRnd, NULL).samples

\* a finished Pink run of at least two chunks whose last chunk starts from a
\* state that is not the zero state and gives a sample that is not zero
C1_Witness ==
  /\ fType = "pink"
  /\ fChunk = FilterChunks
  /\ fChunk >= 2
  /\ fState # NULL
  /\ fSamples[Len(fSamples)] # 0
  /\ fSamples # generatePinkNoise(SubSeq(fRnd, 1, fChunkSize), NULL).samples
                 \o generatePinkNoise(SubSeq(fRnd, fChunkSize + 1, Len(fRnd)), NULL).samples

C3_NonPositiveRejected ==
  (pc = "finally" /\ totalSamples <= 0)
    => (error # "" /\ samplesLen = -1 /\ wav = NoWav)

\* C4: a request with an unknown noise type fails with the unknown-type error
\* and leaves no file; stated for the runs that got their buffer.
C4_UnknownTypeRejected ==
  (pc = "finally" /\ noiseType \notin NoiseTypes /\ samplesLen >= 0)
    => (error = "Unknown noise type" /\ dispatches <= 1 /\ wav = NoWav)

\* C5: a file is handed to downloadFile only by a run that generated every
\* chunk, normalized and encoded the whole buffer and raised no error, and a
\* run that raised an error encodes nothing and downloads nothing.
C5_Complete ==
  /\ chunk = chunks
  /\ filled = totalSamples
  /\ samplesLen = totalSamples
  /\ normalized
  /\ error = ""

C5_AllOrNothing ==
  /\ [](wav # NoWav => C5_Complete /\ wav.size = WavSize(totalSamples))
  /\ [](error # "" => wav = NoWav)
  /\ [][downloads' # downloads
          => /\ C5_Complete
             /\ wav # NoWav
             /\ downloads' = Append(downloads, wav.size)]_vars
  /\ [][error' # "" => downloads' = downloads]_vars

\* a second run that failed after a first run that downloaded its file
C5_Witness ==
  /\ runs = 2
  /\ pc = "finally"
  /\ error = "Unknown noise type"
  /\ chunks > 1
  /\ Len(downloads) = 1
  /\ downloads[1] > 44

\* C6: between two chunks of a run the host can process another event.
C6_YieldsBetweenChunks ==
  (pc = "loop" /\ 0 < chunk /\ chunk < chunks) => ENABLED HostEvent

\* the largest absolute value of a buffer
MaxAbs(samples) ==
  IF samples = <<>> THEN 0
  ELSE CHOOSE m \in {Abs(samples[i]) : i \in DOMAIN samples} :
         \A i \in DOMAIN samples : Abs(samples[i]) <= m

\* x <= 0.99
AtMostPoint99(x) == 100 * x <= 99 * DOUBLE_ONE

\* C7 as stated: after normalizeSamples every sample is at most 0.99 in
\* absolute value; a buffer whose maximum is at most 0.99 is left unchanged.
C7_BoundExact ==
  nPasses = 1
    => /\ \A i \in DOMAIN nSamples : AtMostPoint99(Abs(nSamples[i]))
       /\ AtMostPoint99(MaxAbs(nInput)) => nSamples = nInput

\* C7 amended: after normalizeSamples every sample is at most the Float32
\* nearest to 0.99 in absolute value; a buffer whose maximum is at most 0.99
\* is left unchanged; otherwise every sample is the product of the sample and
\* 0.99 / max as the Float32Array stores it, and the peak is that Float32.
C7_NormalizationBound ==
  nPasses = 1
    => LET max == MaxAbs(nInput)
       IN  /\ \A i \in DOMAIN nSamples : Abs(nSamples[i]) <= Fround(Lit(99, 100))
           /\ AtMostPoint99(max) => nSamples = nInput
           /\ ~AtMostPoint99(max)
                => /\ Len(nSamples) = Len(nInput)
                   /\ \A i \in DOMAIN nInput :
                        nSamples[i] = TimesScale(nInput[i], [num |-> 99, den |-> 100 * max])
                   /\ MaxAbs(nSamples) = Fround(Lit(99, 100))

\* a buffer with a peak of 2.0 and a smaller sample, rescaled
C7_Witness ==
  /\ nPasses = 1
  /\ Len(nInput) >= 2
  /\ MaxAbs(nInput) = Lit(2, 1)
  /\ \E i \in DOMAIN nInput : nInput[i] = -Fround(Lit(99, 100))
  /\ nSamples # nInput
  /\ ~AtMostPoint99(MaxAbs(nSamples))

U16At(bytes, offset) == bytes[offset + 1] + 256 * bytes[offset + 2]
U32At(bytes, offset) == U16At(bytes, offset) + 65536 * U16At(bytes, offset + 2)
S16At(bytes, offset) ==
  IF U16At(bytes, offset) >= 32768 THEN U16At(bytes, offset) - 65536
  ELSE U16At(bytes, offset)
TagAt(bytes, offset) == SubSeq(bytes, offset + 1, offset + 4)

\* C9: the 44-byte header of the file, read back as little-endian fields, gives
\* the tags, the sizes, the format, the sample rate and the data length.
C9_HeaderRoundTrip ==
  wav # NoWav
    => LET h == wav.header
           dataBytes == samplesLen * 2
       IN  /\ Len(h) = 44
           /\ TagAt(h, 0) = <<82, 73, 70, 70>>
           /\ U32At(h, 4) = 36 + dataBytes
           /\ TagAt(h, 8) = <<87, 65, 86, 69>>
           /\ TagAt(h, 12) = <<102, 109, 116, 32>>
           /\ U32At(h, 16) = 16
           /\ U16At(h, 20) = 1
           /\ U16At(h, 22) = 1
           /\ U32At(h, 24) = SAMPLE_RATE
           /\ U32At(h, 28) = SAMPLE_RATE * 2
           /\ U16At(h, 32) = 2
           /\ U16At(h, 34) = 16
           /\ TagAt(h, 36) = <<100, 97, 116, 97>>
           /\ U32At(h, 40) = dataBytes

\* the header of a two-minute file, whose lengths take three bytes
C9_Witness ==
  /\ wav # NoWav
  /\ samplesLen = 5292000
  /\ wav.header[43] # 0

\* the integer the encoder is to write for a sample: clamped to [-1, 1], times
\* 32768 below zero and 32767 otherwise, the fraction dropped toward zero
\* (32768 / DOUBLE_ONE is 16384 / 32768)
PcmExpected(sample) ==
  LET c == IF sample > DOUBLE_ONE THEN DOUBLE_ONE
           ELSE IF sample < -DOUBLE_ONE THEN -DOUBLE_ONE ELSE sample
  IN  IF c < 0 THEN -(((-c) * 16384) \div 32768)
      ELSE (c * 32767) \div DOUBLE_ONE

\* C10: sample i is at byte 44 + 2 * i, little-endian, as the integer the
\* conversion gives, which lies in -32768 .. 32767.
C10_PcmConversion ==
  wBytes # <<>>
    => /\ Len(wBytes) = 44 + 2 * Len(wSamples)
       /\ \A i \in DOMAIN wSamples :
            /\ S16At(wBytes, 44 + 2 * (i - 1)) = PcmExpected(wSamples[i])
            /\ PcmExpected(wSamples[i]) \in (-32768)..32767

\* an encoded buffer with a sample above 1, one below -1 and a negative one
\* whose product has a fraction
C10_Witness ==
  /\ wBytes # <<>>
  /\ Len(wSamples) = 3
  /\ \E i \in DOMAIN wSamples : wSamples[i] > DOUBLE_ONE
  /\ \E i \in DOMAIN wSamples : wSamples[i] < -DOUBLE_ONE
  /\ \E i \in DOMAIN wSamples : wSamples[i] = -3 /\ S16At(wBytes, 44 + 2 * (i - 1)) = -1


\* C11 (as claimed): a run of at most 10 chunks reports no progress, no run
\* makes more than 11 progress reports, and the percentages reported never
\* decrease during the run.
NonDecreasing(values) ==
  \A i \in 1..(Len(values) - 1) : values[i] <= values[i + 1]

C11_AtMostElevenReports ==
  /\ chunks <= 10 => progress = <<>>
  /\ Len(progress) <= 11
  /\ NonDecreasing(progress)

\* C11 (amended): a run of at most 10 chunks reports no progress; a run of
\* more than 10 chunks has reported, after `chunk` chunks, once for every
\* multiple of floor(chunks / 10) below `chunk`, which is 10 to 19 reports in
\* a whole run, and the percentages reported never decrease.
C11_ProgressReports ==
  /\ chunks <= 10 => progress = <<>>
  /\ chunks > 10 =>
       /\ Len(progress) = CeilDiv(chunk, chunks \div 10)
       /\ Len(progress) <= 19
       /\ chunk = chunks => Len(progress) >= 10
  /\ NonDecreasing(progress)
  /\ \A i \in 1..Len(progress) : progress[i] \in 0..100

\* the 12 chunks of a 2 minute file are reported one by one
C11_Witness ==
  /\ pc = "download"
  /\ chunks = 12
  /\ Len(progress) = 12
  /\ progress[12] = 92

\* C12: a request the host abandons while generation is in progress stops at
\* a chunk boundary and surfaces no encoded output: between two chunks of a
\* run there is a step that ends the loop there, with the remaining chunks
\* not generated and no file encoded or downloaded.
StopsHere ==
  /\ pc' # "loop"
  /\ chunk' = chunk
  /\ wav' = NoWav
  /\ downloads' = downloads

C12_StopsBetweenChunks ==
  (pc = "loop" /\ 0 < chunk /\ chunk < chunks) => ENABLED (Next /\ StopsHere)

\* C13: Grey is the one recursive filter whose state is not threaded.  In a
\* Grey run of the chunk loop no state object is ever passed or returned,
\* every chunk written is what the two-pole blend gives from state1 = state2
\* = 0 on the draws of that chunk alone, and the first chunk is the start of
\* the single-call output; the witness is a run whose samples after the first
\* chunk boundary all differ from the single-call output over the same draws.
GreyFromZero(rnd) ==
  GreyLoop(GreyFill(rnd, 1, ZeroArray(Len(rnd))), 1, ZeroArray(Len(rnd)), 0, 0)

GreySingleCall == GenerateChunk("grey", fRnd, NULL).samples

C13_GreyNotThreaded ==
  fType = "grey" =>
    /\ fState = NULL
    /\ \A c \in 0..(fChunk - 1) :
         LET start == ChunkStart(c, fChunkSize)
             end   == ChunkEnd(c, fChunkSize, Len(fSamples))
         IN  SubSeq(fSamples, start + 1, end) = GreyFromZero(SubSeq(fRnd, start + 1, end))
    /\ fChunk >= 1 =>
         \A i \in 1..Min(fChunkSize, Len(fSamples)) : fSamples[i] = GreySingleCall[i]

\* a finished Grey run of two chunks or more, of two samples or more each,
\* that equals the single call up to the first boundary and differs from it
\* in every sample after
C13_Witness ==
  /\ fType = "grey"
  /\ fChunk = FilterChunks
  /\ fChunk >= 2
  /\ fChunkSize >= 2
  /\ fState = NULL
  /\ \A i \in 1..fChunkSize : fSamples[i] = GreySingleCall[i]
  /\ \A i \in (fChunkSize + 1)..Len(fSamples) : fSamples[i] # GreySingleCall[i]

\* C14: a status message is blanked only by the 5-second timer started for
\* that same message: whenever a step takes a message off the status line,
\* the timer that fires is the one of the message shown, never the one left
\* over from an earlier success message.
\* The runs looked at are those of a supported type and a positive duration,
\* which end in a file with samples in it.
BlankedByOwnTimer ==
  (/\ status.type # "" /\ status'.type = ""
   /\ \A i \in 1..Len(downloads) : downloads[i] > WavSize(0))
    => (timers # <<>> /\ Head(timers) = status.seq)

C14_BlankedOnlyByOwnTimer == [][BlankedByOwnTimer]_vars
=============================================================================
